---- MODULE Spec2Model ----
(***************************************************************************)
(* Solution guide generator: the request pipeline of                       *)
(* app/routers/api.py, app/services/guide_generator.py and                 *)
(* app/services/glean_client.py.                                           *)
(*                                                                         *)
(* Texts are sequences of one-character strings, so that prefixes,         *)
(* substrings, splitting and trimming are computed as Python computes      *)
(* them.  None is the text NoneVal.                                        *)
(***************************************************************************)
EXTENDS Integers, Sequences, FiniteSets, TLC

(***************************************************************************)
(* Bounds of the model.                                                    *)
(***************************************************************************)
\* how many characters the long transcript has beyond SubstantialLen
LongPad == 1
\* how many hits the provider's search returns when it returns any
MaxHits == 6
\* how many text fragments the provider's last chat message has
MaxFragments == 2

(***************************************************************************)
(* Program constants.                                                      *)
(***************************************************************************)
\* guide_generator.py:158   if len(transcript) > 500
SubstantialLen == 500
\* guide_generator.py:162   transcript[:1000] + "..."
ExcerptLen == 1000
\* guide_generator.py:232   sentences[:20]
SentenceWindow == 20
\* guide_generator.py:240   relevant_sentences[:3]
TopSentences == 3
\* glean_client.py:72       search_response.results[:5]
TopResults == 5

(***************************************************************************)
(* Python str operations.                                                  *)
(***************************************************************************)
\* None, a value that is no text (texts hold one-character strings only)
NoneVal == <<"None">>

UpperChars ==
  <<"A","B","C","D","E","F","G","H","I","J","K","L","M",
    "N","O","P","Q","R","S","T","U","V","W","X","Y","Z">>
LowerChars ==
  <<"a","b","c","d","e","f","g","h","i","j","k","l","m",
    "n","o","p","q","r","s","t","u","v","w","x","y","z">>

\* F applied to the value of v, with v evaluated once
Let(v, F(_)) == CHOOSE r \in {F(x) : x \in {v}} : TRUE

\* str.lower() on one character
LowerChar(c) ==
  IF \E i \in 1..26 : UpperChars[i] = c
  THEN LowerChars[CHOOSE i \in 1..26 : UpperChars[i] = c]
  ELSE c

\* str.lower()
Lower(text) == Let(text, LAMBDA s : [i \in 1..Len(s) |-> LowerChar(s[i])])

\* str.isspace() on one character
IsSpace(c) == c \in {" ", "\n", "\t", "\r"}

\* str.strip()
Strip(text) ==
  Let(text, LAMBDA s :
    IF \A i \in 1..Len(s) : IsSpace(s[i]) THEN <<>>
    ELSE LET lo == CHOOSE i \in 1..Len(s) :
                     ~IsSpace(s[i]) /\ \A j \in 1..(i - 1) : IsSpace(s[j])
             hi == CHOOSE i \in 1..Len(s) :
                     ~IsSpace(s[i]) /\ \A j \in (i + 1)..Len(s) : IsSpace(s[j])
         IN SubSeq(s, lo, hi))

\* s.startswith(p)
StartsWith(text, prefix) ==
  Let(text, LAMBDA s : Let(prefix, LAMBDA p :
    Len(p) <= Len(s) /\ SubSeq(s, 1, Len(p)) = p))

\* sub in s
Contains(text, part) ==
  Let(text, LAMBDA s : Let(part, LAMBDA sub :
    \E i \in 1..(Len(s) - Len(sub) + 1) : SubSeq(s, i, i + Len(sub) - 1) = sub))

\* s[:n]
Prefix(text, n) == Let(text, LAMBDA s : SubSeq(s, 1, IF Len(s) < n THEN Len(s) ELSE n))

\* s.split(ch) for a one-character separator: the pieces between the
\* occurrences of ch, empty pieces included
Split(text, ch) ==
  Let(text, LAMBDA s :
    Let({i \in 1..Len(s) : s[i] = ch}, LAMBDA cuts :
      LET cut(k) == IF k = 0 THEN 0
                    ELSE IF k = Cardinality(cuts) + 1 THEN Len(s) + 1
                    ELSE CHOOSE p \in cuts : Cardinality({q \in cuts : q <= p}) = k
      IN [k \in 1..(Cardinality(cuts) + 1) |-> SubSeq(s, cut(k - 1) + 1, cut(k) - 1)]))

\* sep.join(parts)
RECURSIVE Join(_, _)
Join(list, sep) ==
  Let(list, LAMBDA parts :
    IF Len(parts) = 0 THEN <<>>
    ELSE IF Len(parts) = 1 THEN parts[1]
    ELSE parts[1] \o sep \o Join(Tail(parts), sep))

\* s.replace(old, new): the matches are taken from the left, each after the
\* end of the one before
RECURSIVE Replace(_, _, _)
Replace(text, old, new) ==
  Let(text, LAMBDA s :
    Let({i \in 1..(Len(s) - Len(old) + 1) : SubSeq(s, i, i + Len(old) - 1) = old},
        LAMBDA starts :
          IF starts = {} THEN s
          ELSE Let(CHOOSE i \in starts : \A j \in starts : i <= j, LAMBDA m :
                 SubSeq(s, 1, m - 1) \o new
                   \o Replace(SubSeq(s, m + Len(old), Len(s)), old, new))))

\* the indices up to n that are in keep, in order
RECURSIVE SelectIdx(_, _)
SelectIdx(n, keep) ==
  IF n = 0 THEN <<>>
  ELSE IF n \in keep THEN Append(SelectIdx(n - 1, keep), n)
  ELSE SelectIdx(n - 1, keep)

\* a text of n filler characters
Pad(n) == [i \in 1..n |-> "x"]

(***************************************************************************)
(* Literals of the program.                                                *)
(***************************************************************************)
\* "Chat query failed: "
ChatFailedPrefix ==
  <<"C","h","a","t"," ","q","u","e","r","y"," ","f","a","i","l","e","d",":"," ">>
\* "Search failed: "
SearchFailedPrefix ==
  <<"S","e","a","r","c","h"," ","f","a","i","l","e","d",":"," ">>
\* "Failed to generate solution guide: "
GenerateFailedPrefix ==
  <<"F","a","i","l","e","d"," ","t","o"," ","g","e","n","e","r","a","t","e"," ",
    "s","o","l","u","t","i","o","n"," ","g","u","i","d","e",":"," ">>
\* "Failed to research company: "
ResearchFailedPrefix ==
  <<"F","a","i","l","e","d"," ","t","o"," ","r","e","s","e","a","r","c","h"," ",
    "c","o","m","p","a","n","y",":"," ">>
\* "validation error"
SettingsErrorMsg == <<"v","a","l","i","d","a","t","i","o","n"," ","e","r","r","o","r">>
\* "Failed to generate solution guide"
GenerateFailedText == SubSeq(GenerateFailedPrefix, 1, Len(GenerateFailedPrefix) - 2)
\* "Chat query failed"
ChatFailedText == SubSeq(ChatFailedPrefix, 1, Len(ChatFailedPrefix) - 2)
\* " + Plaid // Solutions Guide"
TitleSuffix ==
  <<" ","+"," ","P","l","a","i","d"," ","/","/"," ",
    "S","o","l","u","t","i","o","n","s"," ","G","u","i","d","e">>
\* "# "
H1 == <<"#"," ">>
\* "financial technology integration"
DefaultUseCase ==
  <<"f","i","n","a","n","c","i","a","l"," ","t","e","c","h","n","o","l","o","g","y"," ",
    "i","n","t","e","g","r","a","t","i","o","n">>
\* "Unable to research "
UnableToResearch ==
  <<"U","n","a","b","l","e"," ","t","o"," ","r","e","s","e","a","r","c","h"," ">>
\* ". Error: "
DotError == <<"."," ","E","r","r","o","r",":"," ">>
\* "No technical context available due to research error."
NoTechnicalContext ==
  <<"N","o"," ","t","e","c","h","n","i","c","a","l"," ","c","o","n","t","e","x","t"," ",
    "a","v","a","i","l","a","b","l","e"," ","d","u","e"," ","t","o"," ",
    "r","e","s","e","a","r","c","h"," ","e","r","r","o","r",".">>
\* "Transcript cannot be empty"
TranscriptEmptyDetail == <<"T","r","a","n","s","c","r","i","p","t"," ","c","a","n","n","o","t"," ","b","e"," ","e","m","p","t","y">>
\* "Company name cannot be empty"
CompanyEmptyDetail == <<"C","o","m","p","a","n","y"," ","n","a","m","e"," ","c","a","n","n","o","t"," ","b","e"," ","e","m","p","t","y">>
\* pydantic's detail for a string shorter than min_length
TooShortDetail == <<"s","t","r","i","n","g","_","t","o","o","_","s","h","o","r","t">>

\* the keyword list of _extract_use_case, as written in the source
use_case_keywords ==
  << <<"p","a","y","m","e","n","t">>,
     <<"t","r","a","n","s","a","c","t","i","o","n">>,
     <<"b","a","n","k">>,
     <<"f","i","n","a","n","c","i","a","l">>,
     <<"i","n","t","e","g","r","a","t","i","o","n">>,
     <<"A","P","I">>,
     <<"p","l","a","t","f","o","r","m">>,
     <<"s","y","s","t","e","m">>,
     <<"a","p","p","l","i","c","a","t","i","o","n">>,
     <<"s","e","r","v","i","c","e">> >>

(***************************************************************************)
(* GuideGenerator._extract_use_case                                        *)
(***************************************************************************)
\* bool(x) of an optional text: None and "" are false
Truthy(t) == t # NoneVal /\ t # <<>>

\* _extract_use_case without its fallback text
_extract_use_case_no_fallback(transcript, additional_context) ==
  Let(Split(transcript, "."), LAMBDA sentences :
    LET window == IF Len(sentences) < SentenceWindow THEN Len(sentences)
                  ELSE SentenceWindow
        matching(i) == {k \in 1..Len(use_case_keywords) :
                          Contains(Lower(sentences[i]), use_case_keywords[k])}
    IN Let({i \in 1..window : matching(i) # {}}, LAMBDA matched :
       Let(SelectIdx(window, matched), LAMBDA hits :
         LET relevant_sentences == [j \in 1..Len(hits) |-> Strip(sentences[hits[j]])]
             context_part == IF Truthy(additional_context) THEN <<additional_context>>
                             ELSE <<>>
         IN Let(context_part \o Prefix(relevant_sentences, TopSentences),
                LAMBDA use_case_parts :
                  Join(use_case_parts, <<" ">>)))))

\* _extract_use_case adding the context after the sentences
_extract_use_case_context_last(transcript, additional_context) ==
  Let(Split(transcript, "."), LAMBDA sentences :
    LET window == IF Len(sentences) < SentenceWindow THEN Len(sentences)
                  ELSE SentenceWindow
        matching(i) == {k \in 1..Len(use_case_keywords) :
                          Contains(Lower(sentences[i]), use_case_keywords[k])}
    IN Let({i \in 1..window : matching(i) # {}}, LAMBDA matched :
       Let(SelectIdx(window, matched), LAMBDA hits :
         LET relevant_sentences == [j \in 1..Len(hits) |-> Strip(sentences[hits[j]])]
             context_part == IF Truthy(additional_context) THEN <<additional_context>>
                             ELSE <<>>
         IN Let(Prefix(relevant_sentences, TopSentences) \o context_part,
                LAMBDA use_case_parts :
                  IF Len(use_case_parts) > 0 THEN Join(use_case_parts, <<" ">>)
                  ELSE DefaultUseCase))))

\* _extract_use_case looking at every sentence
_extract_use_case_unwindowed(transcript, additional_context) ==
  Let(Split(transcript, "."), LAMBDA sentences :
    LET window == Len(sentences)
        matching(i) == {k \in 1..Len(use_case_keywords) :
                          Contains(Lower(sentences[i]), use_case_keywords[k])}
    IN Let({i \in 1..window : matching(i) # {}}, LAMBDA matched :
       Let(SelectIdx(window, matched), LAMBDA hits :
         LET relevant_sentences == [j \in 1..Len(hits) |-> Strip(sentences[hits[j]])]
             context_part == IF Truthy(additional_context) THEN <<additional_context>>
                             ELSE <<>>
         IN Let(context_part \o Prefix(relevant_sentences, TopSentences),
                LAMBDA use_case_parts :
                  IF Len(use_case_parts) > 0 THEN Join(use_case_parts, <<" ">>)
                  ELSE DefaultUseCase))))

\* _extract_use_case keeping every relevant sentence
_extract_use_case_all_matches(transcript, additional_context) ==
  Let(Split(transcript, "."), LAMBDA sentences :
    LET window == IF Len(sentences) < SentenceWindow THEN Len(sentences)
                  ELSE SentenceWindow
        matching(i) == {k \in 1..Len(use_case_keywords) :
                          Contains(Lower(sentences[i]), use_case_keywords[k])}
    IN Let({i \in 1..window : matching(i) # {}}, LAMBDA matched :
       Let(SelectIdx(window, matched), LAMBDA hits :
         LET relevant_sentences == [j \in 1..Len(hits) |-> Strip(sentences[hits[j]])]
             context_part == IF Truthy(additional_context) THEN <<additional_context>>
                             ELSE <<>>
         IN Let(context_part \o relevant_sentences,
                LAMBDA use_case_parts :
                  IF Len(use_case_parts) > 0 THEN Join(use_case_parts, <<" ">>)
                  ELSE DefaultUseCase))))

_extract_use_case(transcript, additional_context) ==
  Let(Split(transcript, "."), LAMBDA sentences :
    LET window == IF Len(sentences) < SentenceWindow THEN Len(sentences)
                  ELSE SentenceWindow
        matching(i) == {k \in 1..Len(use_case_keywords) :
                          Contains(Lower(sentences[i]), use_case_keywords[k])}
    IN Let({i \in 1..window : matching(i) # {}}, LAMBDA matched :
       Let(SelectIdx(window, matched), LAMBDA hits :
         LET relevant_sentences == [j \in 1..Len(hits) |-> Strip(sentences[hits[j]])]
             context_part == IF Truthy(additional_context) THEN <<additional_context>>
                             ELSE <<>>
         IN Let(context_part \o Prefix(relevant_sentences, TopSentences),
                LAMBDA use_case_parts :
                  IF Len(use_case_parts) > 0 THEN Join(use_case_parts, <<" ">>)
                  ELSE DefaultUseCase))))

(***************************************************************************)
(* GuideGenerator._post_process_guide                                      *)
(***************************************************************************)
Title(company_name) == H1 \o company_name \o TitleSuffix

\* _post_process_guide that rewrites the first h1 line of every guide
_post_process_guide_retitle(raw_guide, company_name) ==
  Let(Split(raw_guide, "\n"), LAMBDA lines :
    Let({i \in 1..Len(lines) : StartsWith(lines[i], H1)}, LAMBDA h1s :
      LET first == CHOOSE i \in h1s : \A j \in h1s : i <= j
          titled ==
            IF h1s # {}
            THEN Join([i \in 1..Len(lines) |->
                         IF i = first THEN Title(company_name) ELSE lines[i]],
                      <<"\n">>)
            ELSE Title(company_name) \o <<"\n","\n">> \o raw_guide
      IN Strip(Replace(titled, <<"\n","\n","\n">>, <<"\n","\n">>))))

\* the title step rewriting every h1 line
ensure_title_every_h1(guide_content, company_name) ==
  Let(Split(guide_content, "\n"), LAMBDA lines :
    Let({i \in 1..Len(lines) : StartsWith(lines[i], H1)}, LAMBDA h1s :
      IF StartsWith(guide_content, H1 \o company_name) THEN guide_content
      ELSE IF h1s # {}
           THEN Join([i \in 1..Len(lines) |->
                        IF i \in h1s THEN Title(company_name) ELSE lines[i]],
                     <<"\n">>)
           ELSE Title(company_name) \o <<"\n","\n">> \o guide_content))

\* the title step (guide_generator.py 286-307)
ensure_title(guide_content, company_name) ==
  Let(Split(guide_content, "\n"), LAMBDA lines :
    Let({i \in 1..Len(lines) : StartsWith(lines[i], H1)}, LAMBDA h1s :
      LET first == CHOOSE i \in h1s : \A j \in h1s : i <= j
      IN IF StartsWith(guide_content, H1 \o company_name) THEN guide_content
         ELSE IF h1s # {}
              THEN Join([i \in 1..Len(lines) |->
                           IF i = first THEN Title(company_name) ELSE lines[i]],
                        <<"\n">>)
              ELSE Title(company_name) \o <<"\n","\n">> \o guide_content))

\* the whitespace step repeated until no three newlines are left
RECURSIVE clean_up_repeated(_)
clean_up_repeated(guide_content) ==
  Let(Replace(guide_content, <<"\n","\n","\n">>, <<"\n","\n">>), LAMBDA once :
    IF once = guide_content THEN Strip(once) ELSE clean_up_repeated(once))

\* the whitespace step (guide_generator.py 309-313)
clean_up(guide_content) ==
  Strip(Replace(guide_content, <<"\n","\n","\n">>, <<"\n","\n">>))

_post_process_guide(raw_guide, company_name) ==
  clean_up(ensure_title(raw_guide, company_name))

(***************************************************************************)
(* PromptBuilder.  A prompt is the tuple of the values interpolated into   *)
(* the fixed template, in the order of the template's holes.               *)
(***************************************************************************)
\* "No business overview available"
NoBusinessOverview ==
  <<"N","o"," ","b","u","s","i","n","e","s","s"," ","o","v","e","r","v","i","e","w"," ",
    "a","v","a","i","l","a","b","l","e">>
\* "No technical context available"
NoTechnicalContextAvailable ==
  <<"N","o"," ","t","e","c","h","n","i","c","a","l"," ","c","o","n","t","e","x","t"," ",
    "a","v","a","i","l","a","b","l","e">>
\* "No additional context provided"
NoAdditionalContext ==
  <<"N","o"," ","a","d","d","i","t","i","o","n","a","l"," ","c","o","n","t","e","x","t"," ",
    "p","r","o","v","i","d","e","d">>

\* dict.get(key, default)
Get(d, key, default) == IF key \in DOMAIN d THEN d[key] ELSE default

\* build_solution_guide_prompt that also quotes the transcript analysis
build_solution_guide_prompt_with_analysis(transcript, company_name, company_research, additional_context) ==
  [template |-> "solution_guide",
   company_name |-> company_name,
   transcript |-> transcript,
   business_overview |-> Get(company_research, "business_overview", NoBusinessOverview),
   technical_context |-> Get(company_research, "technical_context", NoTechnicalContextAvailable),
   transcript_analysis |-> Get(company_research, "transcript_analysis", <<>>),
   additional_context |-> IF Truthy(additional_context) THEN additional_context
                          ELSE NoAdditionalContext]

build_solution_guide_prompt(transcript, company_name, company_research, additional_context) ==
  [template |-> "solution_guide",
   company_name |-> company_name,
   transcript |-> transcript,
   business_overview |-> Get(company_research, "business_overview", NoBusinessOverview),
   technical_context |-> Get(company_research, "technical_context", NoTechnicalContextAvailable),
   additional_context |-> IF Truthy(additional_context) THEN additional_context
                          ELSE NoAdditionalContext]

build_company_research_prompt(company_name, transcript_excerpt) ==
  [template |-> "company_research",
   company_name |-> company_name,
   transcript_excerpt |-> transcript_excerpt]

(***************************************************************************)
(* GleanClient.  The provider (the Glean SDK) is a black box: each call    *)
(* gets an outcome o, a response or an exception.  A call of a gateway     *)
(* method yields [raised |-> FALSE, value |-> v] when it returns v and     *)
(* [raised |-> TRUE, msg |-> m] when it raises an exception with str m.    *)
(***************************************************************************)
Returned(v) == [raised |-> FALSE, value |-> v]
Raised(m) == [raised |-> TRUE, msg |-> m]

\* "API Error"
ApiErrorMsg == <<"A","P","I"," ","E","r","r","o","r">>
\* "timeout"
TimeoutMsg == <<"t","i","m","e","o","u","t">>
\* "Research failed"
ResearchFailedMsg == <<"R","e","s","e","a","r","c","h"," ","f","a","i","l","e","d">>
\* "boom"
BoomMsg == <<"b","o","o","m">>

\* the provider raises errors.GleanError, or any other Exception
\* (the SDK call, or _get_client, fails)
ProviderFailures ==
  { [kind |-> "GleanError", msg |-> ApiErrorMsg],
    [kind |-> "Exception", msg |-> TimeoutMsg] }

ProviderFailed(o) == o.kind \in {"GleanError", "Exception"}

\* the i-th hit of a search response
Hit(i) == [title |-> [j \in 1..i |-> "t"], snippet |-> <<"s">>, url |-> <<"u">>]

\* what the provider's search can do: a response with hits, one with none
SearchOutcomes ==
  { [kind |-> "ok", results |-> [i \in 1..n |-> Hit(i)]] : n \in {0, MaxHits} }
  \cup ProviderFailures

\* "company information about "
SearchQueryHead ==
  <<"c","o","m","p","a","n","y"," ","i","n","f","o","r","m","a","t","i","o","n"," ",
    "a","b","o","u","t"," ">>
\* " business model products services"
SearchQueryTail ==
  <<" ","b","u","s","i","n","e","s","s"," ","m","o","d","e","l"," ",
    "p","r","o","d","u","c","t","s"," ","s","e","r","v","i","c","e","s">>

\* search_company without its except branches
search_company_reraise(company_name, o) ==
  LET search_query == SearchQueryHead \o company_name \o SearchQueryTail
      results == Prefix(o.results, TopResults)
  IN IF ProviderFailed(o)
     THEN Raised(o.msg)
     ELSE Returned([results |-> results,
                    query |-> search_query,
                    total_results |-> Len(results)])

search_company(company_name, o) ==
  LET search_query == SearchQueryHead \o company_name \o SearchQueryTail
      results == Prefix(o.results, TopResults)
  IN IF ProviderFailed(o)
     THEN Returned([error |-> SearchFailedPrefix \o o.msg,
                    results |-> <<>>,
                    query |-> search_query,
                    total_results |-> 0])
     ELSE Returned([results |-> results,
                    query |-> search_query,
                    total_results |-> Len(results)])

\* texts the provider answers with
\* "Overview"
OverviewText == <<"O","v","e","r","v","i","e","w">>
\* "# Acme + Plaid // Solutions Guide\nok"
TitledGuide ==
  <<"#"," ","A","c","m","e"," ","+"," ","P","l","a","i","d"," ","/","/"," ",
    "S","o","l","u","t","i","o","n","s"," ","G","u","i","d","e","\n","o","k">>
\* "# Old"
OldTitle == <<"#"," ","O","l","d">>
\* "body"
BodyText == <<"b","o","d","y">>
\* "Guide\n\n\nbody"
UntitledGuide == <<"G","u","i","d","e","\n","\n","\n","b","o","d","y">>
\* "# Acme Guide"
OwnTitleGuide == <<"#"," ","A","c","m","e"," ","G","u","i","d","e">>
\* "<ChatResponse>"
ResponseRepr == <<"<","C","h","a","t","R","e","s","p","o","n","s","e",">">>

\* the fragments of the last message of a chat response: texts, the last
\* one empty
Fragments == [i \in 1..MaxFragments |-> IF i = 1 THEN OldTitle
                                        ELSE IF i = MaxFragments THEN <<>> ELSE BodyText]

\* chat responses by shape: `attrs' holds the attributes the object has
ChatResponses ==
  { [kind |-> "ok", attrs |-> [messages |-> << <<OverviewText>> >>]],
    [kind |-> "ok", attrs |-> [messages |-> << <<OverviewText>>, Fragments >>]],
    [kind |-> "ok", attrs |-> [messages |-> <<>>, text |-> UntitledGuide]],
    [kind |-> "ok", attrs |-> [text |-> <<>>, content |-> TitledGuide]],
    [kind |-> "ok", attrs |-> [text |-> OwnTitleGuide]],
    [kind |-> "ok", attrs |-> [repr |-> ResponseRepr]] }

\* what the provider's chat can do when asked a research question
ResearchChatOutcomes ==
  { [kind |-> "ok", attrs |-> [messages |-> << <<OverviewText>> >>]] } \cup ProviderFailures

\* what the provider's chat can do when asked for the guide
ChatOutcomes == ChatResponses \cup ProviderFailures

\* the texts of the fragments that have one, in order
RECURSIVE FragmentTexts(_)
FragmentTexts(fragments) ==
  IF Len(fragments) = 0 THEN <<>>
  ELSE IF fragments[1] # <<>> THEN <<fragments[1]>> \o FragmentTexts(Tail(fragments))
  ELSE FragmentTexts(Tail(fragments))

\* the response text chat_query extracts from a response object
ResponseText(chat_response) ==
  Let(chat_response, LAMBDA r :
    IF "messages" \in DOMAIN r /\ Len(r.messages) > 0
    THEN LET last_message == r.messages[Len(r.messages)]
         IN IF Len(last_message) > 0 THEN Join(FragmentTexts(last_message), <<" ">>)
            ELSE <<>>
    ELSE IF "text" \in DOMAIN r /\ r.text # <<>> THEN r.text
    ELSE IF "content" \in DOMAIN r THEN r.content
    ELSE r.repr)

\* chat_query without its except branches
chat_query_reraise(question, o) ==
  IF ProviderFailed(o) THEN Raised(o.msg)
  ELSE Returned(ResponseText(o.attrs))

chat_query(question, o) ==
  IF ProviderFailed(o) THEN Returned(ChatFailedPrefix \o o.msg)
  ELSE Returned(ResponseText(o.attrs))

(***************************************************************************)
(* Test doubles (tests/test_guide_generator.py, the guide_generator        *)
(* fixture): GleanClient and PromptBuilder replaced by mocks whose methods *)
(* return a canned value or raise.                                         *)
(***************************************************************************)
\* "Business info"
BusinessInfo == <<"B","u","s","i","n","e","s","s"," ","i","n","f","o">>
\* "Tech info"
TechInfo == <<"T","e","c","h"," ","i","n","f","o">>
\* "Test prompt"
TestPrompt == <<"T","e","s","t"," ","p","r","o","m","p","t">>

DoubleInsightsOutcomes ==
  { Returned([business_overview |-> BusinessInfo, technical_context |-> TechInfo]),
    Raised(ResearchFailedMsg) }
DoubleChatOutcomes == { Returned(TitledGuide), Raised(BoomMsg) }
DoublePromptOutcomes == { Returned(TestPrompt), Raised(BoomMsg) }

(***************************************************************************)
(* Inputs.                                                                 *)
(***************************************************************************)
\* "Pay by bank. Hi"
ShortTranscript == <<"P","a","y"," ","b","y"," ","b","a","n","k","."," ","H","i">>
\* "Acme"
Acme == <<"A","c","m","e">>
\* "HOA"
Hoa == <<"H","O","A">>

Transcripts == { <<>>, <<" ">>, ShortTranscript, Pad(SubstantialLen + LongPad) }
\* transcripts at the thresholds of _research_company
BoundaryTranscripts == { Pad(SubstantialLen), Pad(ExcerptLen), Pad(ExcerptLen + LongPad) }
CompanyNames == { <<>>, <<" ">>, Acme }
Contexts == { NoneVal, Hoa }

CallKinds == {"get_company_insights", "search", "business_overview",
              "technical_context", "transcript_analysis", "generation"}

(***************************************************************************)
(* State.                                                                  *)
(***************************************************************************)
VARIABLES
  entry,               \* "http": POST /generate-guide; "direct": generate_guide called
  collab,              \* "real": GleanClient and PromptBuilder; "double": mocks of both
  transcript,          \* the request
  company_name,
  additional_context,
  pc,                  \* where the request is
  stage,               \* the stage of generate_guide
  trace,               \* the stages entered so far, in order
  calls,               \* how often each call to the gateway was issued
  outcome,             \* how the last call of each kind ended
  use_case,            \* _research_company's use_case
  insights,            \* the research structure
  prompt,              \* the prompt of the generation call
  transcript_excerpt,  \* the excerpt handed to build_company_research_prompt
  solution_guide,      \* the text the generation call returned
  fault,               \* the exception generate_guide caught
  result,              \* what generate_guide returned or raised
  response,            \* the HTTP response
  titled_guide,        \* its guide_content after the title step
  processed_guide,     \* how _post_process_guide, called on its own, ended
  reprocessed_guide,   \* how it ended when called again on what it returned
  settings,            \* how get_settings ended
  validation_results,  \* the flags of validate_environment
  test_response,       \* how validate_environment's test query ended
  suspended,           \* the locals of the request that waits at an await
  running              \* which of the requests in flight has the event loop

vars == <<entry, collab, transcript, company_name, additional_context, pc, stage,
          trace, calls, outcome, use_case, insights, prompt, transcript_excerpt,
          solution_guide, fault, result, response, titled_guide, processed_guide,
          reprocessed_guide, settings, validation_results, test_response,
          suspended, running>>

\* the state of the methods called on their own
unit == <<titled_guide, processed_guide, reprocessed_guide, settings, validation_results,
          test_response>>

\* the other request in flight
scheduler == <<suspended, running>>

request == <<entry, collab, transcript, company_name, additional_context>>

NoFault == [stage |-> "none", msg |-> <<>>]
Pending == [state |-> "pending", value |-> <<>>]
NoResponse == [status |-> 0, body |-> <<>>]
NoDict == [none |-> TRUE]
NotCalled == [raised |-> FALSE, value |-> NoneVal, called |-> FALSE]
NoFrame == [none |-> TRUE]

Init ==
  /\ entry \in {"http", "direct", "research"}
  /\ collab \in {"real", "double"}
  /\ transcript \in (IF entry = "research" THEN {<<>>}
                     ELSE Transcripts \cup BoundaryTranscripts)
  /\ company_name \in (IF transcript \in BoundaryTranscripts THEN {Acme} ELSE CompanyNames)
  /\ additional_context \in (IF entry = "research" \/ transcript \in BoundaryTranscripts
                             THEN {NoneVal} ELSE Contexts)
  /\ pc = IF entry = "http" THEN "request"
          ELSE IF entry = "research" THEN "research_request" ELSE "generate"
  /\ stage = "Start"
  /\ trace = <<"Start">>
  /\ calls = [k \in CallKinds |-> 0]
  /\ outcome = [k \in CallKinds \cup {"build_prompt"} |-> "none"]
  /\ use_case = NoneVal
  /\ insights = NoDict
  /\ prompt = NoneVal
  /\ transcript_excerpt = NoneVal
  /\ solution_guide = NoneVal
  /\ fault = NoFault
  /\ result = Pending
  /\ response = NoResponse
  /\ titled_guide = NoneVal
  /\ processed_guide = NotCalled
  /\ reprocessed_guide = NotCalled
  /\ settings = NotCalled
  /\ validation_results = NoDict
  /\ test_response = NotCalled
  /\ suspended = NoFrame
  /\ running = 1

(***************************************************************************)
(* Helpers of the actions.                                                 *)
(***************************************************************************)
Enter(s) == stage' = s /\ trace' = Append(trace, s)

Issue(kind, how) ==
  /\ calls' = [calls EXCEPT ![kind] = @ + 1]
  /\ outcome' = [outcome EXCEPT ![kind] = how]

\* d[key] = value
Put(d, key, value) == (key :> value) @@ d

\* a call of chat_query on the generator's glean_client
ChatChoices(kind) ==
  IF collab = "double" THEN DoubleChatOutcomes
  ELSE IF kind = "generation" THEN ChatOutcomes ELSE ResearchChatOutcomes
ChatCall(question, o) == IF collab = "double" THEN o ELSE chat_query(question, o)
How(o) == IF collab = "double" THEN (IF o.raised THEN "raised" ELSE "returned") ELSE o.kind

\* get_company_insights, the except branch (glean_client.py 276-288)
InsightsError(name, msg) ==
  [company_name |-> name,
   error |-> UnableToResearch \o name \o <<":"," ">> \o msg,
   business_overview |-> <<>>,
   technical_context |-> <<>>,
   search_results |-> [results |-> <<>>, total_results |-> 0]]

\* the degraded research without its error marker
DegradedResearch_unmarked(name, msg) ==
  [company_name |-> name,
   business_overview |-> UnableToResearch \o name \o DotError \o msg,
   technical_context |-> NoTechnicalContext]

\* _research_company, the except branch (guide_generator.py 180-191)
DegradedResearch(name, msg) ==
  [company_name |-> name,
   business_overview |-> UnableToResearch \o name \o DotError \o msg,
   technical_context |-> NoTechnicalContext,
   error |-> msg]

\* _research_company returns: to generate_guide, which builds the prompt, or
\* to the handler of /research-company
ResearchReturns ==
  IF entry = "research"
  THEN pc' = "researched" /\ UNCHANGED <<stage, trace>>
  ELSE pc' = "prompt" /\ Enter("PromptBuilding")

\* AfterInsights analysing a transcript of SubstantialLen characters too
AfterInsights_inclusive ==
  IF Len(transcript) >= SubstantialLen
  THEN pc' = "analysis" /\ UNCHANGED <<stage, trace>>
  ELSE ResearchReturns

\* get_company_insights has returned ins: _research_company goes on to the
\* transcript analysis, or returns and generate_guide builds the prompt
AfterInsights ==
  IF Len(transcript) > SubstantialLen
  THEN pc' = "analysis" /\ UNCHANGED <<stage, trace>>
  ELSE ResearchReturns

\* the except branch re-raising the cause as it is
Fail_bare(msg) ==
  /\ fault' = [stage |-> stage, msg |-> msg]
  /\ result' = [state |-> "raised", value |-> msg]
  /\ Enter("Failed")
  /\ pc' = "returned"

\* the except branch logging the failure and falling through to step 4
Fail_fallthrough(msg) ==
  /\ fault' = [stage |-> stage, msg |-> msg]
  /\ result' = [state |-> "raised", value |-> GenerateFailedPrefix \o msg]
  /\ Enter("Failed")
  /\ pc' = "postprocess"

\* generate_guide, the except branch (guide_generator.py 117-126)
Fail(msg) ==
  /\ fault' = [stage |-> stage, msg |-> msg]
  /\ result' = [state |-> "raised", value |-> GenerateFailedPrefix \o msg]
  /\ Enter("Failed")
  /\ pc' = "returned"

(***************************************************************************)
(* POST /api/v1/generate-guide: the request model and the validation of    *)
(* generate_solution_guide.                                                *)
(***************************************************************************)
\* the request model without min_length
TranscriptRequest_unbounded(t, c) == Len(t) >= 0 /\ Len(c) >= 0

\* TranscriptRequest: transcript and company_name have min_length=1
TranscriptRequest(t, c) == Len(t) >= 1 /\ Len(c) >= 1

\* the handler without its own validation of blank fields
generate_solution_guide_unchecked ==
  /\ pc = "request"
  /\ IF ~TranscriptRequest(transcript, company_name)
     THEN response' = [status |-> 422, body |-> TooShortDetail] /\ pc' = "responded"
     ELSE response' = response /\ pc' = "generate"
  /\ UNCHANGED <<request, unit, scheduler, transcript_excerpt, stage, trace, calls, outcome, use_case, insights, prompt,
                 solution_guide, fault, result>>

generate_solution_guide ==
  /\ pc = "request"
  /\ IF ~TranscriptRequest(transcript, company_name)
     THEN response' = [status |-> 422, body |-> TooShortDetail] /\ pc' = "responded"
     ELSE IF Strip(transcript) = <<>>
     THEN response' = [status |-> 400, body |-> TranscriptEmptyDetail] /\ pc' = "responded"
     ELSE IF Strip(company_name) = <<>>
     THEN response' = [status |-> 400, body |-> CompanyEmptyDetail] /\ pc' = "responded"
     ELSE response' = response /\ pc' = "generate"
  /\ UNCHANGED <<request, unit, scheduler, transcript_excerpt, stage, trace, calls, outcome, use_case, insights, prompt,
                 solution_guide, fault, result>>

(***************************************************************************)
(* GuideGenerator.generate_guide, step 1: _research_company.               *)
(***************************************************************************)
\* generate_guide is entered; _research_company extracts the use case and
\* calls get_company_insights
generate_guide ==
  /\ pc = "generate"
  /\ Enter("Researching")
  /\ use_case' = _extract_use_case(transcript, additional_context)
  /\ IF collab = "real"
     THEN /\ Issue("get_company_insights", "called")
          /\ insights' = [company_name |-> company_name]
          /\ pc' = "search"
     ELSE /\ UNCHANGED <<calls, outcome, insights>>
          /\ pc' = "insights"
  /\ UNCHANGED <<request, unit, scheduler, transcript_excerpt, prompt, solution_guide, fault, result, response>>

\* get_company_insights: the search
insights_search ==
  /\ pc = "search"
  /\ \E o \in SearchOutcomes :
       LET r == search_company(company_name, o)
       IN /\ Issue("search", o.kind)
          /\ IF r.raised
             THEN insights' = InsightsError(company_name, r.msg) /\ AfterInsights
             ELSE /\ insights' = Put(insights, "search_results", r.value)
                  /\ pc' = "business"
                  /\ UNCHANGED <<stage, trace>>
  /\ UNCHANGED <<request, unit, scheduler, transcript_excerpt, use_case, prompt, solution_guide, fault, result, response>>

\* get_company_insights: the business overview
insights_business_overview ==
  /\ pc = "business"
  /\ \E o \in ChatChoices("business_overview") :
       LET business_query == [template |-> "business_query",
                              company_name |-> company_name,
                              focus |-> IF Truthy(use_case) THEN use_case ELSE <<>>]
           r == ChatCall(business_query, o)
       IN /\ Issue("business_overview", How(o))
          /\ IF r.raised
             THEN insights' = InsightsError(company_name, r.msg) /\ AfterInsights
             ELSE /\ insights' = Put(insights, "business_overview", r.value)
                  /\ IF Truthy(use_case)
                     THEN pc' = "technical" /\ UNCHANGED <<stage, trace>>
                     ELSE AfterInsights
  /\ UNCHANGED <<request, unit, scheduler, transcript_excerpt, use_case, prompt, solution_guide, fault, result, response>>

\* get_company_insights: the technical context, asked when there is a use case
insights_technical_context ==
  /\ pc = "technical"
  /\ \E o \in ChatChoices("technical_context") :
       LET tech_query == [template |-> "tech_query",
                          company_name |-> company_name,
                          use_case |-> use_case]
           r == ChatCall(tech_query, o)
       IN /\ Issue("technical_context", How(o))
          /\ IF r.raised
             THEN insights' = InsightsError(company_name, r.msg)
             ELSE insights' = Put(insights, "technical_context", r.value)
          /\ AfterInsights
  /\ UNCHANGED <<request, unit, scheduler, transcript_excerpt, use_case, prompt, solution_guide, fault, result, response>>

\* get_company_insights of a mocked gateway returns or raises
insights_double ==
  /\ pc = "insights"
  /\ \E o \in DoubleInsightsOutcomes :
       /\ Issue("get_company_insights", How(o))
       /\ IF o.raised
          THEN /\ insights' = DegradedResearch(company_name, o.msg)
               /\ ResearchReturns
          ELSE insights' = o.value /\ AfterInsights
  /\ UNCHANGED <<request, unit, scheduler, transcript_excerpt, use_case, prompt, solution_guide, fault, result, response>>

\* the whole transcript as the excerpt
excerpt_whole(t) == t

\* the excerpt of the transcript (guide_generator.py 162)
excerpt(t) ==
  IF Len(t) > ExcerptLen THEN Prefix(t, ExcerptLen) \o <<".",".",".">> ELSE t

\* _research_company: the analysis of a substantial transcript
transcript_analysis ==
  /\ pc = "analysis"
  /\ transcript_excerpt' = excerpt(transcript)
  /\ \E o \in ChatChoices("transcript_analysis") :
       LET r == ChatCall(build_company_research_prompt(company_name, transcript_excerpt'), o)
       IN /\ Issue("transcript_analysis", How(o))
          /\ IF r.raised
             THEN insights' = DegradedResearch(company_name, r.msg)
             ELSE insights' = Put(insights, "transcript_analysis", r.value)
  /\ ResearchReturns
  /\ UNCHANGED <<request, unit, scheduler, use_case, prompt, solution_guide, fault, result, response>>

(***************************************************************************)
(* generate_guide, steps 2 to 4.                                           *)
(***************************************************************************)
\* step 2: the prompt is built and the generation call is issued
build_prompt ==
  /\ pc = "prompt"
  /\ \E o \in (IF collab = "double" THEN DoublePromptOutcomes
               ELSE {Returned(build_solution_guide_prompt(transcript, company_name,
                                                          insights, additional_context))}) :
       /\ outcome' = [outcome EXCEPT !["build_prompt"] =
                                        IF o.raised THEN "raised" ELSE "returned"]
       /\ IF o.raised
          THEN Fail(o.msg) /\ UNCHANGED prompt
          ELSE /\ prompt' = o.value
               /\ Enter("Generating")
               /\ pc' = "generation"
               /\ UNCHANGED <<fault, result>>
  /\ UNCHANGED <<request, unit, scheduler, transcript_excerpt, calls, use_case, insights, solution_guide, response>>

\* step 3 with the generation call re-issued until the provider answers
\* (the count of the re-issued calls saturates at 2)
generation_retry ==
  /\ pc = "generation"
  /\ \E o \in ChatChoices("generation") :
       LET r == ChatCall(prompt, o)
       IN IF collab = "real" /\ ProviderFailed(o)
          THEN /\ calls' = [calls EXCEPT !["generation"] = IF @ < 2 THEN @ + 1 ELSE @]
               /\ outcome' = [outcome EXCEPT !["generation"] = o.kind]
               /\ UNCHANGED <<pc, stage, trace, solution_guide, fault, result>>
          ELSE /\ Issue("generation", How(o))
               /\ IF r.raised
                  THEN Fail(r.msg) /\ UNCHANGED solution_guide
                  ELSE /\ solution_guide' = r.value
                       /\ Enter("PostProcessing")
                       /\ pc' = "postprocess"
                       /\ UNCHANGED <<fault, result>>
  /\ UNCHANGED <<request, unit, scheduler, transcript_excerpt, use_case, insights, prompt, response>>

\* step 3: the generation call ends
generation ==
  /\ pc = "generation"
  /\ \E o \in ChatChoices("generation") :
       LET r == ChatCall(prompt, o)
       IN /\ Issue("generation", How(o))
          /\ IF r.raised
             THEN Fail(r.msg) /\ UNCHANGED solution_guide
             ELSE /\ solution_guide' = r.value
                  /\ Enter("PostProcessing")
                  /\ pc' = "postprocess"
                  /\ UNCHANGED <<fault, result>>
  /\ UNCHANGED <<request, unit, scheduler, transcript_excerpt, use_case, insights, prompt, response>>

\* step 4: post-processing, and generate_guide returns
post_process ==
  /\ pc = "postprocess"
  /\ result' = [state |-> "returned",
                value |-> _post_process_guide(solution_guide, company_name)]
  /\ Enter("Done")
  /\ pc' = "returned"
  /\ UNCHANGED <<request, unit, scheduler, transcript_excerpt, calls, outcome, use_case, insights, prompt, solution_guide,
                 fault, response>>

(***************************************************************************)
(* generate_solution_guide: the response.                                  *)
(***************************************************************************)
\* the handler answering 200 whatever generate_guide did
respond_always_ok ==
  /\ pc = "returned"
  /\ entry = "http"
  /\ response' = [status |-> 200, body |-> result.value]
  /\ pc' = "responded"
  /\ UNCHANGED <<request, unit, scheduler, transcript_excerpt, stage, trace, calls, outcome, use_case, insights, prompt,
                 solution_guide, fault, result>>

respond ==
  /\ pc = "returned"
  /\ entry = "http"
  /\ response' = IF result.state = "returned"
                 THEN [status |-> 200, body |-> result.value]
                 ELSE [status |-> 500, body |-> GenerateFailedPrefix \o result.value]
  /\ pc' = "responded"
  /\ UNCHANGED <<request, unit, scheduler, transcript_excerpt, stage, trace, calls, outcome, use_case, insights, prompt,
                 solution_guide, fault, result>>

(***************************************************************************)
(* POST /research-company (api.py 178-244).                                *)
(***************************************************************************)
\* GuideGenerator(): GleanClient.__init__ calls get_settings, which raises
\* when the configuration is not valid
GeneratorOutcomes == { Returned(NoneVal), Raised(SettingsErrorMsg) }

\* the handler answering its own HTTPException like any other exception
research_company_wrapped ==
  /\ entry = "research"
  /\ pc = "research_request"
  /\ IF Strip(company_name) = <<>>
     THEN /\ response' = [status |-> 500,
                          body |-> ResearchFailedPrefix \o CompanyEmptyDetail]
          /\ pc' = "responded"
          /\ UNCHANGED <<settings, use_case, calls, outcome, insights>>
     ELSE \E o \in GeneratorOutcomes :
            /\ settings' = o
            /\ IF o.raised
               THEN /\ response' = [status |-> 500, body |-> ResearchFailedPrefix \o o.msg]
                    /\ pc' = "responded"
                    /\ UNCHANGED <<use_case, calls, outcome, insights>>
               ELSE /\ response' = response
                    /\ use_case' = _extract_use_case(transcript, additional_context)
                    /\ IF collab = "real"
                       THEN /\ Issue("get_company_insights", "called")
                            /\ insights' = [company_name |-> company_name]
                            /\ pc' = "search"
                       ELSE /\ UNCHANGED <<calls, outcome, insights>>
                            /\ pc' = "insights"
  /\ UNCHANGED <<request, scheduler, transcript_excerpt, stage, trace, prompt, solution_guide,
                 fault, result, titled_guide, processed_guide, reprocessed_guide,
                 validation_results, test_response>>

\* the handler up to its call of _research_company with an empty transcript
\* and no additional context: a blank company name is answered with 400,
\* the HTTPException being re-raised as it is; a generator that cannot be
\* constructed is answered with 500
research_company ==
  /\ entry = "research"
  /\ pc = "research_request"
  /\ IF Strip(company_name) = <<>>
     THEN /\ response' = [status |-> 400, body |-> CompanyEmptyDetail]
          /\ pc' = "responded"
          /\ UNCHANGED <<settings, use_case, calls, outcome, insights>>
     ELSE \E o \in GeneratorOutcomes :
            /\ settings' = o
            /\ IF o.raised
               THEN /\ response' = [status |-> 500, body |-> ResearchFailedPrefix \o o.msg]
                    /\ pc' = "responded"
                    /\ UNCHANGED <<use_case, calls, outcome, insights>>
               ELSE /\ response' = response
                    /\ use_case' = _extract_use_case(transcript, additional_context)
                    /\ IF collab = "real"
                       THEN /\ Issue("get_company_insights", "called")
                            /\ insights' = [company_name |-> company_name]
                            /\ pc' = "search"
                       ELSE /\ UNCHANGED <<calls, outcome, insights>>
                            /\ pc' = "insights"
  /\ UNCHANGED <<request, scheduler, transcript_excerpt, stage, trace, prompt, solution_guide,
                 fault, result, titled_guide, processed_guide, reprocessed_guide,
                 validation_results, test_response>>

\* "Company research completed successfully"
ResearchCompletedMessage ==
  <<"C","o","m","p","a","n","y"," ","r","e","s","e","a","r","c","h"," ",
    "c","o","m","p","l","e","t","e","d"," ","s","u","c","c","e","s","s","f","u","l","l","y">>

\* _research_company has returned: the handler answers with the research
research_respond ==
  /\ entry = "research"
  /\ pc = "researched"
  /\ response' = [status |-> 200,
                  body |-> [company_name |-> company_name,
                            research_results |-> insights,
                            message |-> ResearchCompletedMessage]]
  /\ pc' = "responded"
  /\ UNCHANGED <<request, unit, scheduler, transcript_excerpt, stage, trace, calls, outcome,
                 use_case, insights, prompt, solution_guide, fault, result>>

Next ==
  \/ generate_solution_guide
  \/ generate_guide
  \/ insights_search
  \/ insights_business_overview
  \/ insights_technical_context
  \/ insights_double
  \/ transcript_analysis
  \/ build_prompt
  \/ generation
  \/ post_process
  \/ respond
  \/ research_company
  \/ research_respond

Spec == Init /\ [][Next]_vars

\* every call the generator issues eventually returns or raises, and the
\* event loop runs the request on
FairSpec == Spec /\ WF_vars(Next)

(***************************************************************************)
(* Two requests to POST /generate-guide in flight.  The handler is a       *)
(* coroutine: it constructs its own GuideGenerator (api.py 60), which      *)
(* constructs its own GleanClient and PromptBuilder, and everything it     *)
(* works on is a local of its frame.  The event loop runs one request at a *)
(* time and may switch to the other one wherever a request awaits.         *)
(***************************************************************************)
\* "Zeta"
Zeta == <<"Z","e","t","a">>

\* the locals of the request that has the event loop
Frame ==
  [entry |-> entry, collab |-> collab, transcript |-> transcript,
   company_name |-> company_name, additional_context |-> additional_context,
   pc |-> pc, stage |-> stage, trace |-> trace, calls |-> calls, outcome |-> outcome,
   use_case |-> use_case, insights |-> insights, prompt |-> prompt,
   transcript_excerpt |-> transcript_excerpt, solution_guide |-> solution_guide,
   fault |-> fault, result |-> result, response |-> response]

\* the locals of a request that has arrived
Arrived(c, t, name, context) ==
  [entry |-> "http", collab |-> c, transcript |-> t,
   company_name |-> name, additional_context |-> context,
   pc |-> "request", stage |-> "Start", trace |-> <<"Start">>,
   calls |-> [k \in CallKinds |-> 0],
   outcome |-> [k \in CallKinds \cup {"build_prompt"} |-> "none"],
   use_case |-> NoneVal, insights |-> NoDict, prompt |-> NoneVal,
   transcript_excerpt |-> NoneVal, solution_guide |-> NoneVal,
   fault |-> NoFault, result |-> Pending, response |-> NoResponse]

\* the pairs of requests in flight: one for Acme, with the real gateway and
\* a short transcript or with the mocked gateway and a substantial one, and
\* one for Zeta with the mocked gateway
ConcurrentInit ==
  /\ \E first \in {<<"real", ShortTranscript>>,
                     <<"double", Pad(SubstantialLen + LongPad)>>} :
       /\ entry = "http"
       /\ collab = first[1]
       /\ transcript = first[2]
       /\ company_name = Acme
       /\ additional_context = NoneVal
       /\ suspended = Arrived("double", ShortTranscript, Zeta, Hoa)
  /\ running = 1
  /\ pc = "request"
  /\ stage = "Start"
  /\ trace = <<"Start">>
  /\ calls = [k \in CallKinds |-> 0]
  /\ outcome = [k \in CallKinds \cup {"build_prompt"} |-> "none"]
  /\ use_case = NoneVal
  /\ insights = NoDict
  /\ prompt = NoneVal
  /\ transcript_excerpt = NoneVal
  /\ solution_guide = NoneVal
  /\ fault = NoFault
  /\ result = Pending
  /\ response = NoResponse
  /\ titled_guide = NoneVal
  /\ processed_guide = NotCalled
  /\ reprocessed_guide = NotCalled
  /\ settings = NotCalled
  /\ validation_results = NoDict
  /\ test_response = NotCalled

\* the event loop switching between requests whose research structure is
\* kept in one place for both
switch_shared_insights ==
  /\ suspended # NoFrame
  /\ suspended' = Frame
  /\ running' = 3 - running
  /\ entry' = suspended.entry
  /\ collab' = suspended.collab
  /\ transcript' = suspended.transcript
  /\ company_name' = suspended.company_name
  /\ additional_context' = suspended.additional_context
  /\ pc' = suspended.pc
  /\ stage' = suspended.stage
  /\ trace' = suspended.trace
  /\ calls' = suspended.calls
  /\ outcome' = suspended.outcome
  /\ use_case' = suspended.use_case
  /\ insights' = insights
  /\ prompt' = suspended.prompt
  /\ transcript_excerpt' = suspended.transcript_excerpt
  /\ solution_guide' = suspended.solution_guide
  /\ fault' = suspended.fault
  /\ result' = suspended.result
  /\ response' = suspended.response
  /\ UNCHANGED unit

\* the event loop suspends the request that has run and resumes the other
\* one, each with its own locals
switch ==
  /\ suspended # NoFrame
  /\ suspended' = Frame
  /\ running' = 3 - running
  /\ entry' = suspended.entry
  /\ collab' = suspended.collab
  /\ transcript' = suspended.transcript
  /\ company_name' = suspended.company_name
  /\ additional_context' = suspended.additional_context
  /\ pc' = suspended.pc
  /\ stage' = suspended.stage
  /\ trace' = suspended.trace
  /\ calls' = suspended.calls
  /\ outcome' = suspended.outcome
  /\ use_case' = suspended.use_case
  /\ insights' = suspended.insights
  /\ prompt' = suspended.prompt
  /\ transcript_excerpt' = suspended.transcript_excerpt
  /\ solution_guide' = suspended.solution_guide
  /\ fault' = suspended.fault
  /\ result' = suspended.result
  /\ response' = suspended.response
  /\ UNCHANGED unit

ConcurrentNext ==
  \/ generate_solution_guide
  \/ generate_guide
  \/ insights_search
  \/ insights_business_overview
  \/ insights_technical_context
  \/ insights_double
  \/ transcript_analysis
  \/ build_prompt
  \/ generation
  \/ post_process
  \/ respond
  \/ switch

ConcurrentSpec == ConcurrentInit /\ [][ConcurrentNext]_vars

(***************************************************************************)
(* The methods of GuideGenerator called on their own, as the unit tests    *)
(* call them: _extract_use_case, _post_process_guide (applied, and applied *)
(* again to what it returned) and validate_environment.                    *)
(***************************************************************************)
\* how many period-delimited segments a long transcript has beyond the
\* first SentenceWindow
TailSegments == 1
\* how many newlines follow the title of the well-formed guide
BlankRun == 4

\* values that are no text: None, an int, a list
IntVal == <<"int">>
ListVal == <<"list">>
IsText(v) == v \notin {NoneVal, IntVal, ListVal}
\* len(v) is defined
HasLen(v) == v \notin {NoneVal, IntVal}
\* "object has no len()"
NoLenMsg == <<"o","b","j","e","c","t"," ","h","a","s"," ","n","o"," ","l","e","n","(",")">>
\* "object has no attribute 'lower'"
NoLowerMsg ==
  <<"o","b","j","e","c","t"," ","h","a","s"," ","n","o"," ","a","t","t","r","i","b","u","t","e"," ",
    "'","l","o","w","e","r","'">>

\* the section markers _post_process_guide looks for
required_sections ==
  << <<"S","o","l","u","t","i","o","n","s"," ","G","u","i","d","e">>,
     <<"W","h","a","t"," ","Y","o","u","'","r","e"," ","B","u","i","l","d","i","n","g">>,
     <<"I","n","t","e","g","r","a","t","i","o","n">>,
     <<"T","e","c","h","n","i","c","a","l">>,
     <<"G","e","t","t","i","n","g"," ","S","t","a","r","t","e","d">> >>

\* the markers the guide lacks; they are logged and change nothing
missing_sections(guide_content) ==
  {k \in 1..Len(required_sections) :
     ~Contains(Lower(guide_content), Lower(required_sections[k]))}

\* _post_process_guide as a call: len(raw_guide) is taken before the try
\* (guide_generator.py 261), the rest runs inside it and an exception there
\* makes the method return raw_guide
_post_process_guide_call(raw_guide, name) ==
  IF ~HasLen(raw_guide) THEN Raised(NoLenMsg)
  ELSE IF ~IsText(raw_guide) THEN Returned(raw_guide)
  ELSE Returned(_post_process_guide(raw_guide, name))

\* guides handed to _post_process_guide
\* "# Acme + Plaid // Solutions Guide v2"
WellFormedTitle ==
  <<"#"," ","A","c","m","e"," ","+"," ","P","l","a","i","d"," ","/","/"," ",
    "S","o","l","u","t","i","o","n","s"," ","G","u","i","d","e"," ","v","2">>
\* "## What You're Building\nIntegration\n  Technical\n\n\nGetting Started \n"
WellFormedBody ==
  <<"#","#"," ","W","h","a","t"," ","Y","o","u","'","r","e"," ","B","u","i","l","d","i","n","g","\n",
    "I","n","t","e","g","r","a","t","i","o","n","\n"," "," ","T","e","c","h","n","i","c","a","l",
    "\n","\n","\n","G","e","t","t","i","n","g"," ","S","t","a","r","t","e","d"," ","\n">>
WellFormedGuide == WellFormedTitle \o [i \in 1..BlankRun |-> "\n"] \o WellFormedBody
\* " # Other\n# Old"
IndentedTitleGuide == <<" ","#"," ","O","t","h","e","r","\n","#"," ","O","l","d">>
\* "Intro\n# Old"
LateTitleGuide == <<"I","n","t","r","o","\n","#"," ","O","l","d">>

\* "# Old\n# Older"
TwoTitlesGuide == <<"#"," ","O","l","d","\n","#"," ","O","l","d","e","r">>

Guides == { TitledGuide, OldTitle, UntitledGuide, OwnTitleGuide, WellFormedGuide,
            IndentedTitleGuide, LateTitleGuide, TwoTitlesGuide, NoneVal, ListVal }
UnitCompanyNames == { Acme, <<>> }

\* transcripts handed to _extract_use_case
\* "Hello there"
PlainTranscript == <<"H","e","l","l","o"," ","t","h","e","r","e">>
\* "We need an API"
ApiTranscript == <<"W","e"," ","n","e","e","d"," ","a","n"," ","A","P","I">>
\* "PAYMENT now"
UpperTranscript == <<"P","A","Y","M","E","N","T"," ","n","o","w">>
\* "bank. system. service. platform"
FourHitsTranscript ==
  <<"b","a","n","k","."," ","s","y","s","t","e","m","."," ",
    "s","e","r","v","i","c","e","."," ","p","l","a","t","f","o","r","m">>
\* "a.a. ... .a.bank": a keyword in no segment but those after the first
\* SentenceWindow segments
BeyondWindowTranscript ==
  Join([i \in 1..(SentenceWindow + TailSegments) |->
          IF i <= SentenceWindow THEN <<"a">> ELSE <<"b","a","n","k">>], <<".">>)
\* "a.a. ... .a.system.bank": a keyword in segment SentenceWindow and after it
AtWindowTranscript ==
  Join([i \in 1..(SentenceWindow + TailSegments) |->
          IF i < SentenceWindow THEN <<"a">>
          ELSE IF i = SentenceWindow THEN <<"s","y","s","t","e","m">>
          ELSE <<"b","a","n","k">>], <<".">>)

UnitTranscripts == { <<>>, PlainTranscript, ApiTranscript, UpperTranscript, ShortTranscript,
                     FourHitsTranscript, BeyondWindowTranscript, AtWindowTranscript }
UnitContexts == { NoneVal, <<>>, Hoa }

\* validate_environment: what get_settings and the test query can do
\* "test-instance"
TestInstance == <<"t","e","s","t","-","i","n","s","t","a","n","c","e">>
\* "test-token"
TestToken == <<"t","e","s","t","-","t","o","k","e","n">>
\* "Hello, this is a test."
TestQuestion ==
  <<"H","e","l","l","o",","," ","t","h","i","s"," ","i","s"," ","a"," ","t","e","s","t",".">>
\* "Hello response"
HelloResponse == <<"H","e","l","l","o"," ","r","e","s","p","o","n","s","e">>
\* "No errors found"
NoErrorsResponse == <<"N","o"," ","e","r","r","o","r","s"," ","f","o","u","n","d">>
\* "FAILED"
FailedResponse == <<"F","A","I","L","E","D">>
\* "error"
ErrorWord == <<"e","r","r","o","r">>
\* "failed"
FailedWord == <<"f","a","i","l","e","d">>

SettingsOutcomes ==
  { Returned([glean_instance |-> TestInstance, glean_api_token |-> TestToken]),
    Returned([glean_instance |-> TestInstance, glean_api_token |-> <<>>]),
    Returned([glean_instance |-> <<>>, glean_api_token |-> <<>>]),
    Raised(SettingsErrorMsg) }

TestChatOutcomes ==
  { [kind |-> "ok", attrs |-> [messages |-> << <<HelloResponse>> >>]],
    [kind |-> "ok", attrs |-> [text |-> NoErrorsResponse]] } \cup ProviderFailures
DoubleTestChatOutcomes ==
  { Returned(HelloResponse), Returned(FailedResponse), Returned(NoneVal), Raised(BoomMsg) }

AllFalse == [glean_client |-> FALSE, configuration |-> FALSE, connectivity |-> FALSE]

UnitEntries == {"_extract_use_case", "_post_process_guide", "validate_environment"}

UnitInit ==
  /\ entry \in UnitEntries
  /\ collab \in (IF entry = "validate_environment" THEN {"real", "double"} ELSE {"real"})
  /\ transcript \in (IF entry = "_extract_use_case" THEN UnitTranscripts ELSE {<<>>})
  /\ additional_context \in (IF entry = "_extract_use_case" THEN UnitContexts ELSE {NoneVal})
  /\ company_name \in (IF entry = "_post_process_guide" THEN UnitCompanyNames ELSE {Acme})
  /\ solution_guide \in (IF entry = "_post_process_guide" THEN Guides ELSE {NoneVal})
  /\ pc = "call"
  /\ stage = "Start"
  /\ trace = <<"Start">>
  /\ calls = [k \in CallKinds \cup {"chat_query"} |-> 0]
  /\ outcome = [k \in CallKinds \cup {"build_prompt", "chat_query"} |-> "none"]
  /\ use_case = NoneVal
  /\ insights = NoDict
  /\ prompt = NoneVal
  /\ transcript_excerpt = NoneVal
  /\ fault = NoFault
  /\ result = Pending
  /\ response = NoResponse
  /\ titled_guide = NoneVal
  /\ processed_guide = NotCalled
  /\ reprocessed_guide = NotCalled
  /\ settings = NotCalled
  /\ validation_results = NoDict
  /\ test_response = NotCalled
  /\ suspended = NoFrame
  /\ running = 1

pipeline == <<stage, trace, insights, prompt, transcript_excerpt, fault, response>>

\* _extract_use_case(transcript, additional_context) is called
extract_use_case_call ==
  /\ entry = "_extract_use_case"
  /\ pc = "call"
  /\ use_case' = _extract_use_case(transcript, additional_context)
  /\ result' = [state |-> "returned", value |-> use_case']
  /\ pc' = "returned"
  /\ UNCHANGED <<request, unit, scheduler, transcript_excerpt, pipeline, calls, outcome, solution_guide>>

\* _post_process_guide(solution_guide, company_name) is called
post_process_call ==
  /\ entry = "_post_process_guide"
  /\ pc = "call"
  /\ titled_guide' = IF IsText(solution_guide)
                      THEN ensure_title(solution_guide, company_name)
                      ELSE NoneVal
  /\ processed_guide' = _post_process_guide_call(solution_guide, company_name)
  /\ pc' = IF processed_guide'.raised THEN "returned" ELSE "again"
  /\ UNCHANGED <<request, pipeline, scheduler, calls, outcome, use_case, solution_guide, result,
                 reprocessed_guide, settings, validation_results, test_response>>

\* _post_process_guide is called on what the first call returned
post_process_again ==
  /\ entry = "_post_process_guide"
  /\ pc = "again"
  /\ reprocessed_guide' = _post_process_guide_call(processed_guide.value, company_name)
  /\ pc' = "returned"
  /\ UNCHANGED <<request, pipeline, scheduler, titled_guide, calls, outcome, use_case, solution_guide, result,
                 processed_guide, settings, validation_results, test_response>>

\* validate_environment up to the test query: the flags start false,
\* get_settings is called and the configuration flag is set
validate_configuration ==
  /\ entry = "validate_environment"
  /\ pc = "call"
  /\ \E s \in SettingsOutcomes :
       /\ settings' = s
       /\ IF s.raised
          THEN /\ validation_results' = AllFalse
               /\ result' = [state |-> "returned", value |-> AllFalse]
               /\ pc' = "returned"
          ELSE /\ validation_results' =
                    [AllFalse EXCEPT !.configuration =
                       Truthy(s.value.glean_instance) /\ Truthy(s.value.glean_api_token)]
               /\ result' = result
               /\ pc' = "connectivity"
  /\ UNCHANGED <<request, pipeline, scheduler, titled_guide, calls, outcome, use_case, solution_guide,
                 processed_guide, reprocessed_guide, test_response>>

\* the test query with an exception of it leaving validate_environment
validate_connectivity_unguarded ==
  /\ entry = "validate_environment"
  /\ pc = "connectivity"
  /\ \E o \in (IF collab = "double" THEN DoubleTestChatOutcomes ELSE TestChatOutcomes) :
       LET r == ChatCall(TestQuestion, o)
           excepted == r.raised \/ ~IsText(r.value)
           healthy == /\ ~Contains(Lower(r.value), ErrorWord)
                      /\ ~Contains(Lower(r.value), FailedWord)
       IN /\ Issue("chat_query", How(o))
          /\ test_response' = r
          /\ validation_results' =
               IF ~excepted /\ healthy
               THEN [validation_results EXCEPT !.glean_client = TRUE, !.connectivity = TRUE]
               ELSE validation_results
          /\ result' = IF excepted
                       THEN [state |-> "raised",
                             value |-> IF r.raised THEN r.msg ELSE NoLowerMsg]
                       ELSE [state |-> "returned", value |-> validation_results']
  /\ pc' = "returned"
  /\ UNCHANGED <<request, pipeline, scheduler, titled_guide, use_case, solution_guide, processed_guide,
                 reprocessed_guide, settings>>

\* the test query with its response searched for "error" only
validate_connectivity_error_only ==
  /\ entry = "validate_environment"
  /\ pc = "connectivity"
  /\ \E o \in (IF collab = "double" THEN DoubleTestChatOutcomes ELSE TestChatOutcomes) :
       LET r == ChatCall(TestQuestion, o)
           excepted == r.raised \/ ~IsText(r.value)
           healthy == ~Contains(Lower(r.value), ErrorWord)
       IN /\ Issue("chat_query", How(o))
          /\ test_response' = r
          /\ validation_results' =
               IF ~excepted /\ healthy
               THEN [validation_results EXCEPT !.glean_client = TRUE, !.connectivity = TRUE]
               ELSE validation_results
          /\ result' = [state |-> "returned", value |-> validation_results']
  /\ pc' = "returned"
  /\ UNCHANGED <<request, pipeline, scheduler, titled_guide, use_case, solution_guide, processed_guide,
                 reprocessed_guide, settings>>

\* validate_environment: the test query, and the method returns; an
\* exception of the call, or of .lower() on a response that is no text,
\* ends in the except branch
validate_connectivity ==
  /\ entry = "validate_environment"
  /\ pc = "connectivity"
  /\ \E o \in (IF collab = "double" THEN DoubleTestChatOutcomes ELSE TestChatOutcomes) :
       LET r == ChatCall(TestQuestion, o)
           excepted == r.raised \/ ~IsText(r.value)
           healthy == /\ ~Contains(Lower(r.value), ErrorWord)
                      /\ ~Contains(Lower(r.value), FailedWord)
       IN /\ Issue("chat_query", How(o))
          /\ test_response' = r
          /\ validation_results' =
               IF ~excepted /\ healthy
               THEN [validation_results EXCEPT !.glean_client = TRUE, !.connectivity = TRUE]
               ELSE validation_results
          /\ result' = [state |-> "returned", value |-> validation_results']
  /\ pc' = "returned"
  /\ UNCHANGED <<request, pipeline, scheduler, titled_guide, use_case, solution_guide, processed_guide,
                 reprocessed_guide, settings>>

UnitNext ==
  \/ extract_use_case_call
  \/ post_process_call
  \/ post_process_again
  \/ validate_configuration
  \/ validate_connectivity

UnitSpec == UnitInit /\ [][UnitNext]_vars

(***************************************************************************)
(* Properties.                                                             *)
(***************************************************************************)
Finished == pc \in {"returned", "responded"}
ProviderFailure == {"GleanError", "Exception"}
Blank(t) == Strip(t) = <<>>
\* get_company_insights of the real gateway has returned
InsightsReturned ==
  /\ collab = "real"
  /\ stage # "Start"
  /\ pc \in {"analysis", "prompt", "generation", "postprocess", "returned", "responded"}

\* C1: when the provider's chat operation fails in the generation call,
\* generate_guide ends in failure: it returns no guide, it raises, and the
\* call was issued once.
C1_GenerationFailureIsFatal ==
  (Finished /\ outcome["generation"] \in ProviderFailure)
    => /\ result.state = "raised"
       /\ stage = "Failed"
       /\ calls["generation"] = 1

\* C2: an exception raised to generate_guide by the prompt builder or by
\* the generation call aborts the workflow: generate_guide raises one
\* exception whose message is "Failed to generate solution guide: " followed
\* by the cause, no later step runs, and no guide is returned.
C2_ExceptionAborts ==
  \A k \in {"build_prompt", "generation"} :
    outcome[k] = "raised"
      => /\ Finished
         /\ stage = "Failed"
         /\ fault.msg = BoomMsg
         /\ result.state = "raised"
         /\ result.value = GenerateFailedPrefix \o fault.msg
         /\ Contains(result.value, GenerateFailedText)
         /\ (k = "build_prompt" => calls["generation"] = 0)
         /\ solution_guide = NoneVal
         /\ (pc = "responded" => response.status = 500)

C2_Witness ==
  /\ outcome["generation"] = "raised"
  /\ outcome["transcript_analysis"] = "raised"
  /\ pc = "returned"

\* C3: when get_company_insights raises, the research structure has its
\* error field set and carries the company name, and generate_guide returns
\* a guide if the generation call succeeds.
C3_ResearchDegradationNonFatal ==
  outcome["get_company_insights"] = "raised"
    => /\ "error" \in DOMAIN insights
       /\ insights.error = ResearchFailedMsg
       /\ insights.company_name = company_name
       /\ stage # "Failed" \/ outcome["generation"] = "raised"
                           \/ outcome["build_prompt"] = "raised"
       /\ (Finished /\ outcome["generation"] = "returned")
            => (result.state = "returned" /\ stage = "Done")

C3_Witness ==
  /\ outcome["get_company_insights"] = "raised"
  /\ outcome["generation"] = "returned"
  /\ result.state = "returned"

\* C4 as stated: generate_guide invoked with an empty transcript or an
\* empty company name issues no call to the gateway.
C4_EmptyInputNeverReachesGateway ==
  (transcript = <<>> \/ company_name = <<>>) => \A k \in CallKinds : calls[k] = 0

\* C4 as amended: a POST /generate-guide request whose transcript or company
\* name is empty or blank issues no call to the gateway and never enters
\* generate_guide.
C4_EmptyRequestNeverReachesGateway ==
  (entry = "http" /\ (Blank(transcript) \/ Blank(company_name)))
    => /\ \A k \in CallKinds : calls[k] = 0
       /\ stage = "Start"
       /\ pc \in {"request", "responded"}

C4_Witness ==
  /\ entry = "http"
  /\ pc = "responded"
  /\ Blank(transcript) \/ Blank(company_name)

\* C5 as stated: a request whose transcript or company name is empty after
\* trimming is answered with 422.
C5_BlankIs422 ==
  (entry = "http" /\ pc = "responded" /\ (Blank(transcript) \/ Blank(company_name)))
    => response.status = 422

\* C5 as amended: such a request is answered with 422 when the transcript
\* or the company name is the empty text, and with 400 when both have
\* characters and one of them has only whitespace; never with 200 or 500.
C5_BlankIs422Or400 ==
  (entry = "http" /\ pc = "responded" /\ (Blank(transcript) \/ Blank(company_name)))
    => response.status = IF transcript = <<>> \/ company_name = <<>> THEN 422 ELSE 400

C5_Witness ==
  /\ entry = "http"
  /\ pc = "responded"
  /\ transcript # <<>> /\ company_name # <<>>
  /\ Blank(transcript) \/ Blank(company_name)
  /\ response.status = 400

\* C6: the stages are entered in the order Start, Researching,
\* PromptBuilding, Generating, PostProcessing, Done, each at most once and
\* none skipped; the only other step is into Failed; nothing follows Done
\* or Failed, so the two never occur together.
Rank(s) ==
  CASE s = "Start" -> 0
    [] s = "Researching" -> 1
    [] s = "PromptBuilding" -> 2
    [] s = "Generating" -> 3
    [] s = "PostProcessing" -> 4
    [] s = "Done" -> 5
    [] s = "Failed" -> 6

C7_NoCallRepeated == \A k \in CallKinds : calls[k] <= 1

C7_Witness ==
  /\ Finished
  /\ \A k \in CallKinds \ {"get_company_insights"} : outcome[k] \in ProviderFailure

\* C8: every invocation of generate_guide ends: from each stage it has
\* entered it reaches Done or Failed.
C8_Terminates ==
  \A s \in {"Researching", "PromptBuilding", "Generating", "PostProcessing"} :
    (stage = s) ~> (stage \in {"Done", "Failed"})

C8_Witness == stage = "Done" /\ calls["transcript_analysis"] = 1

\* C9 as stated: when a sub-call of get_company_insights fails, the
\* structure it returns has the company name and an error key.
C9_SubcallFailureSetsError ==
  (InsightsReturned /\ \E k \in {"search", "business_overview", "technical_context"} :
                         outcome[k] \in ProviderFailure)
    => /\ insights.company_name = company_name
       /\ "error" \in DOMAIN insights

\* C9 as amended: get_company_insights returns a structure with the company
\* name; a failed search leaves search_results with an error indicator and
\* no results, a failed chat leaves its field holding the "Chat query
\* failed" text; the structure itself has no error key.
C9_SubcallFailureSetsPlaceholder ==
  InsightsReturned
    => /\ insights.company_name = company_name
       /\ "error" \notin DOMAIN insights
       /\ outcome["search"] \in ProviderFailure
            => /\ "error" \in DOMAIN insights.search_results
               /\ StartsWith(insights.search_results.error, SearchFailedPrefix)
               /\ insights.search_results.results = <<>>
       /\ \A k \in {"business_overview", "technical_context"} :
            outcome[k] \in ProviderFailure
              => StartsWith(insights[k], ChatFailedPrefix)

C9_Witness ==
  /\ InsightsReturned
  /\ outcome["search"] = "GleanError"
  /\ outcome["business_overview"] = "Exception"
  /\ outcome["technical_context"] = "GleanError"

C11_GuideStartsWithTitle ==
  result.state = "returned" => StartsWith(result.value, Title(company_name))

\* C20: when generate_guide raises during POST /generate-guide, the response
\* has status 500 and a detail containing "Failed to generate solution
\* guide"; no 200 response is produced for the request.
C20_FailureIs500 ==
  (entry = "http" /\ result.state = "raised")
    => /\ response.status # 200
       /\ pc = "responded"
            => /\ response.status = 500
               /\ Contains(response.body, GenerateFailedText)
               /\ response.body = GenerateFailedPrefix \o GenerateFailedPrefix \o fault.msg

C20_Witness ==
  /\ entry = "http"
  /\ pc = "responded"
  /\ result.state = "raised"
  /\ fault.stage = "Generating"
  /\ response.status = 500

(***************************************************************************)
(* Properties of the methods called on their own (UnitSpec).               *)
(***************************************************************************)
PostProcessed == entry = "_post_process_guide" /\ processed_guide # NotCalled
Extracted == entry = "_extract_use_case" /\ pc = "returned"
Validated == entry = "validate_environment" /\ pc = "returned"

\* C12: _post_process_guide never raises; handed a value that is no text it
\* returns that value unchanged.
C12_PostProcessNeverRaises ==
  PostProcessed
    => /\ ~processed_guide.raised
       /\ ~IsText(solution_guide) => processed_guide.value = solution_guide

\* the first line of a text
TitleLine(text) == Split(text, "\n")[1]

\* C13: the title line of a guide post-processed twice is the title line of
\* the guide post-processed once.
C13_TitleIdempotent ==
  (PostProcessed /\ reprocessed_guide # NotCalled /\ IsText(processed_guide.value))
    => /\ ~reprocessed_guide.raised
       /\ TitleLine(reprocessed_guide.value) = TitleLine(processed_guide.value)

\* the guide starts with the title of the company and has every section marker
WellFormed(guide, name) ==
  /\ IsText(guide)
  /\ StartsWith(guide, Title(name))
  /\ missing_sections(guide) = {}

\* the lines of a text that have a character other than whitespace
InkLines(text) ==
  Let(Split(text, "\n"), LAMBDA lines :
    LET keep == {i \in 1..Len(lines) : Strip(lines[i]) # <<>>}
        idx == SelectIdx(Len(lines), keep)
    IN [j \in 1..Len(idx) |-> lines[idx[j]]])

\* b is a with runs of blank lines shortened and outer whitespace removed:
\* the lines with ink are the same, in the same order, the last one without
\* its trailing whitespace, and no character is added
SameButWhitespace(a, b) ==
  Let(InkLines(a), LAMBDA la : Let(InkLines(b), LAMBDA lb :
    /\ Len(lb) = Len(la)
    /\ \A i \in 1..(Len(la) - 1) : lb[i] = la[i]
    /\ Len(la) > 0 => /\ StartsWith(la[Len(la)], lb[Len(la)])
                      /\ Strip(la[Len(la)]) = Strip(lb[Len(la)])
    /\ Len(b) <= Len(a)
    /\ Strip(b) = b))

\* C14: a well-formed guide is returned as it is except for whitespace:
\* blank-line runs are shortened and outer whitespace is removed, no other
\* line is added, removed or changed.
C14_WellFormedRoundTrip ==
  (PostProcessed /\ WellFormed(solution_guide, company_name))
    => /\ ~processed_guide.raised
       /\ SameButWhitespace(solution_guide, processed_guide.value)

C14_Witness ==
  /\ PostProcessed
  /\ WellFormed(solution_guide, company_name)
  /\ ~processed_guide.raised
  /\ processed_guide.value # solution_guide
  /\ Contains(processed_guide.value, <<"\n","\n","\n">>)

\* no keyword occurs in the transcript, capitals and small letters alike
NoKeyword(text) ==
  \A k \in 1..Len(use_case_keywords) :
    ~Contains(Lower(text), Lower(use_case_keywords[k]))

\* C15: for a transcript with none of the keywords and no additional
\* context, the empty transcript included, _extract_use_case returns
\* "financial technology integration".
C15_NoKeywordFallback ==
  (Extracted /\ ~Truthy(additional_context) /\ NoKeyword(transcript))
    => use_case = DefaultUseCase

C15_Witness ==
  /\ Extracted
  /\ additional_context = NoneVal
  /\ transcript = PlainTranscript
  /\ use_case = DefaultUseCase

\* the use case has the context as its first part
ContextFirst ==
  /\ \/ use_case = additional_context
     \/ StartsWith(use_case, additional_context \o <<" ">>)
  /\ transcript = <<>> => use_case = additional_context

\* C16 as stated: whenever an additional context is supplied, the use case
\* begins with it as its first part, and is it when the transcript is empty.
C16_ContextFirstWhenSupplied ==
  (Extracted /\ additional_context # NoneVal) => ContextFirst

\* C16 as amended: whenever an additional context that is not empty is
\* supplied, the use case begins with it as its first part, and is it when
\* the transcript is empty; an empty context counts as none.
C16_ContextFirstWhenNotEmpty ==
  Extracted
    => /\ Truthy(additional_context) => ContextFirst
       /\ additional_context = <<>>
            => use_case = _extract_use_case(transcript, NoneVal)

C16_Witness ==
  /\ Extracted
  /\ additional_context = Hoa
  /\ transcript = FourHitsTranscript
  /\ use_case # additional_context

\* the transcript cut after its first SentenceWindow segments
FirstSegments(text) == Join(Prefix(Split(text, "."), SentenceWindow), <<".">>)

\* C17: the result depends on the first 20 period-delimited segments only:
\* transcripts that agree on them give the same use case, and a keyword that
\* occurs only after them gives the fallback.
C17_OnlyFirstSegmentsCount ==
  Extracted
    => /\ \A t \in UnitTranscripts \cup {FirstSegments(transcript)} :
            FirstSegments(t) = FirstSegments(transcript)
              => _extract_use_case(t, additional_context) = use_case
       /\ (NoKeyword(FirstSegments(transcript)) /\ ~Truthy(additional_context))
            => use_case = DefaultUseCase

C17_Witness ==
  /\ Extracted
  /\ transcript = BeyondWindowTranscript
  /\ ~NoKeyword(transcript)
  /\ additional_context = NoneVal
  /\ use_case = DefaultUseCase

\* an exception occurred inside validate_environment
SettingsRaised == settings.raised
TestQueryRaised ==
  test_response # NotCalled /\ (test_response.raised \/ ~IsText(test_response.value))

\* C18 as stated: validate_environment never raises, and after an exception
\* inside it all three flags are false.
C18_ExceptionLeavesAllFalse ==
  Validated
    => /\ result.state = "returned"
       /\ (SettingsRaised \/ TestQueryRaised) => validation_results = AllFalse

\* C18 as amended: validate_environment never raises; when loading the
\* configuration raises, all three flags are false and no test query is
\* issued; when the test query raises, connectivity and glean_client are
\* false and configuration is what the settings gave.
C18_ExceptionLeavesLaterFlagsFalse ==
  Validated
    => /\ result = [state |-> "returned", value |-> validation_results]
       /\ SettingsRaised => (validation_results = AllFalse /\ calls["chat_query"] = 0)
       /\ TestQueryRaised
            => /\ ~validation_results.connectivity
               /\ ~validation_results.glean_client
               /\ validation_results.configuration
                    = (Truthy(settings.value.glean_instance)
                         /\ Truthy(settings.value.glean_api_token))

C18_Witness ==
  /\ Validated
  /\ test_response # NotCalled
  /\ test_response.raised
  /\ validation_results.configuration

\* the text has "error" or "failed" in it, in capitals or small letters
MentionsFailure(text) ==
  Contains(Lower(text), ErrorWord) \/ Contains(Lower(text), FailedWord)

\* C19: validate_environment issues at most one test query; connectivity is
\* true only if the query returned a text without "error" and without
\* "failed"; the failure marker of the gateway leaves it false.
C19_ConnectivityOnlyOnCleanResponse ==
  entry = "validate_environment"
    => /\ calls["chat_query"] <= 1
       /\ Validated
            => /\ ~SettingsRaised => calls["chat_query"] = 1
               /\ validation_results.connectivity
                    => /\ test_response # NotCalled
                       /\ ~TestQueryRaised
                       /\ ~MentionsFailure(test_response.value)
               /\ outcome["chat_query"] \in ProviderFailure
                    => /\ StartsWith(test_response.value, ChatFailedPrefix)
                       /\ ~validation_results.connectivity

C19_Witness ==
  /\ Validated
  /\ outcome["chat_query"] = "Exception"
  /\ ~validation_results.connectivity
  /\ validation_results.configuration

\* the title step turned the text before into the text after
TitleStep(before, after, name) ==
  Let(Split(before, "\n"), LAMBDA was : Let(Split(after, "\n"), LAMBDA now :
    LET h1s == {i \in 1..Len(was) : StartsWith(was[i], H1)}
    IN IF StartsWith(before, H1 \o name) THEN after = before
       ELSE IF h1s # {}
            THEN /\ Len(now) = Len(was)
                 /\ \E k \in h1s :
                      /\ \A j \in h1s : k <= j
                      /\ now[k] = Title(name)
                      /\ \A j \in 1..Len(was) : j # k => now[j] = was[j]
            ELSE /\ Len(now) = Len(was) + 2
                 /\ now[1] = Title(name)
                 /\ now[2] = <<>>
                 /\ \A j \in 1..Len(was) : now[j + 2] = was[j]))

\* C23: the title step leaves a text that starts with "# " and the company
\* name as it is; otherwise it replaces exactly the first line that begins
\* with "# " by the title and leaves every other line unchanged; with no
\* such line it prepends the title and a blank line to the unchanged text.
C23_TitleStep ==
  (PostProcessed /\ IsText(solution_guide))
    => TitleStep(solution_guide, titled_guide, company_name)

C23_Witness ==
  /\ PostProcessed
  /\ solution_guide = TwoTitlesGuide
  /\ company_name = Acme
  /\ Split(titled_guide, "\n") = <<Title(Acme), Split(TwoTitlesGuide, "\n")[2]>>

\* the lengths of the runs of newlines between the lines of a text that are
\* not empty
NewlineRuns(text) ==
  Let(Split(text, "\n"), LAMBDA lines :
    LET idx == SelectIdx(Len(lines), {i \in 1..Len(lines) : lines[i] # <<>>})
    IN [j \in 1..(Len(idx) - 1) |-> idx[j + 1] - idx[j]])

\* the lines of a text that are not empty
NonEmptyLines(text) ==
  Let(Split(text, "\n"), LAMBDA lines :
    LET idx == SelectIdx(Len(lines), {i \in 1..Len(lines) : lines[i] # <<>>})
    IN [j \in 1..Len(idx) |-> lines[idx[j]]])

\* the places of a text where three newlines follow each other
Triples(text) ==
  {i \in 1..(Len(text) - 2) : text[i] = "\n" /\ text[i + 1] = "\n" /\ text[i + 2] = "\n"}

\* C24: the whitespace step replaces three newlines by two in one pass from
\* the left, so that a run of r newlines keeps r - r \div 3 of them, and then
\* trims the text: the result has no outer whitespace and no more places
\* with three newlines than the input, and a run of four or more newlines
\* still leaves three in a row.
C24_WhitespaceStep ==
  (PostProcessed /\ IsText(solution_guide))
    => Let(Strip(titled_guide), LAMBDA core : Let(processed_guide.value, LAMBDA out :
         /\ out = <<>> \/ (~IsSpace(out[1]) /\ ~IsSpace(out[Len(out)]))
         /\ NonEmptyLines(out) = NonEmptyLines(core)
         /\ NewlineRuns(out) = [j \in 1..Len(NewlineRuns(core)) |->
                                  NewlineRuns(core)[j] - (NewlineRuns(core)[j] \div 3)]
         /\ Cardinality(Triples(out)) <= Cardinality(Triples(titled_guide))
         /\ (\E j \in 1..Len(NewlineRuns(core)) : NewlineRuns(core)[j] >= 4)
              => Triples(out) # {}))

C24_Witness ==
  /\ PostProcessed
  /\ solution_guide = WellFormedGuide
  /\ \E j \in 1..Len(NewlineRuns(titled_guide)) : NewlineRuns(titled_guide)[j] >= 4
  /\ Triples(processed_guide.value) # {}
  /\ Len(processed_guide.value) < Len(Strip(titled_guide))

\* the segments among the first SentenceWindow of the transcript that hold
\* one of the ten keywords, capitals and small letters alike, trimmed
KeywordSegments(text) ==
  Let(Prefix(Split(text, "."), SentenceWindow), LAMBDA sentences :
    LET idx == SelectIdx(Len(sentences),
                         {i \in 1..Len(sentences) : ~NoKeyword(sentences[i])})
    IN [j \in 1..Len(idx) |-> Strip(sentences[idx[j]])])

\* C25: among the first 20 segments a segment is collected exactly when it
\* holds one of the ten keywords in any letter case, API included: without
\* additional context the result is the fallback exactly when no segment
\* holds a keyword, and otherwise it starts with the first such segment.
C25_CollectedIffKeyword ==
  (Extracted /\ ~Truthy(additional_context))
    => /\ use_case = DefaultUseCase <=> KeywordSegments(transcript) = <<>>
       /\ KeywordSegments(transcript) # <<>>
            => StartsWith(use_case, KeywordSegments(transcript)[1])

\* the sentences among the first n that match a keyword as the code matches
\* it, trimmed, in their order
RECURSIVE MatchingSentences(_, _)
MatchingSentences(sentences, n) ==
  IF n = 0 THEN <<>>
  ELSE IF \E k \in 1..Len(use_case_keywords) :
            Contains(Lower(sentences[n]), use_case_keywords[k])
       THEN Append(MatchingSentences(sentences, n - 1), Strip(sentences[n]))
       ELSE MatchingSentences(sentences, n - 1)

\* the matching sentences of the first SentenceWindow segments of a transcript
Matches(text) ==
  Let(Split(text, "."), LAMBDA sentences :
    MatchingSentences(sentences, IF Len(sentences) < SentenceWindow
                                 THEN Len(sentences) ELSE SentenceWindow))

\* C26: the result is the additional context, when present, followed by the
\* first 3 matching sentences at most, in their order in the transcript,
\* all joined by a single space; a fourth matching sentence is no part of it.
C26_AtMostThreeSentences ==
  Extracted
    => Let(Matches(transcript), LAMBDA m :
         LET kept == [j \in 1..(IF Len(m) < TopSentences THEN Len(m) ELSE TopSentences)
                        |-> m[j]]
             parts == (IF Truthy(additional_context) THEN <<additional_context>> ELSE <<>>)
                        \o kept
         IN /\ parts # <<>> => use_case = Join(parts, <<" ">>)
            /\ \A j \in (TopSentences + 1)..Len(m) :
                 (\A i \in 1..Len(parts) : ~Contains(parts[i], m[j]))
                   => ~Contains(use_case, m[j]))

C26_Witness ==
  /\ Extracted
  /\ transcript = FourHitsTranscript
  /\ additional_context = Hoa
  /\ Len(Matches(transcript)) = TopSentences + 1
  /\ use_case = Hoa \o <<" ","b","a","n","k"," ","s","y","s","t","e","m"," ",
                         "s","e","r","v","i","c","e">>

(***************************************************************************)
(* Properties of _research_company and of the generation prompt (Spec).    *)
(***************************************************************************)
\* _research_company has ended
ResearchEnded == stage \notin {"Start", "Researching"}
AnalysisIssued == calls["transcript_analysis"] = 1
AnalysisAttached == "transcript_analysis" \in DOMAIN insights

\* C27 as stated: the transcript analysis query is issued and its result
\* attached exactly when the transcript is longer than 500 characters.
C27_AnalysisExactlyWhenSubstantial ==
  ResearchEnded
    => ((AnalysisIssued /\ AnalysisAttached) <=> Len(transcript) > SubstantialLen)

\* C27 as amended: for a transcript of 500 characters or fewer the query is
\* never issued and nothing is attached; for a longer one it is issued once
\* exactly when get_company_insights returned, and its result is attached
\* exactly when the query returned.
C27_AnalysisWhenSubstantialAndResearched ==
  /\ calls["transcript_analysis"] <= 1
  /\ Len(transcript) <= SubstantialLen => ~AnalysisIssued /\ ~AnalysisAttached
  /\ (ResearchEnded /\ Len(transcript) > SubstantialLen)
       => /\ AnalysisIssued <=> outcome["get_company_insights"] # "raised"
          /\ AnalysisAttached <=> (AnalysisIssued /\ outcome["transcript_analysis"] # "raised")

C27_Witness ==
  /\ ResearchEnded
  /\ Len(transcript) = SubstantialLen + LongPad
  /\ AnalysisIssued
  /\ AnalysisAttached

\* C28: the excerpt handed to build_company_research_prompt is the whole
\* transcript when it has at most 1000 characters, and otherwise its first
\* 1000 characters followed by "..."; never more than 1000 characters of it.
C28_ExcerptBounded ==
  AnalysisIssued
    => /\ Len(transcript) <= ExcerptLen => transcript_excerpt = transcript
       /\ Len(transcript) > ExcerptLen
            => /\ Len(transcript_excerpt) = ExcerptLen + 3
               /\ \A i \in 1..ExcerptLen : transcript_excerpt[i] = transcript[i]
               /\ \A i \in 1..3 : transcript_excerpt[ExcerptLen + i] = "."

C28_Witness ==
  /\ AnalysisIssued
  /\ Len(transcript) > ExcerptLen
  /\ Len(transcript_excerpt) = ExcerptLen + 3

\* get_company_insights of the real gateway has returned to
\* _research_company, called by generate_guide or by /research-company
GatewayReturned ==
  \/ InsightsReturned
  \/ /\ collab = "real"
     /\ entry = "research"
     /\ pc = "researched" \/ (pc = "responded" /\ response.status = 200)

\* C29: _extract_use_case never returns the empty text: in generate_guide
\* and in /research-company get_company_insights is called with a use case
\* that is not empty, and the gateway, whose sub-calls do not raise, issues
\* both the business overview and the technical context query.
C29_UseCaseNeverEmpty ==
  /\ use_case # NoneVal => use_case # <<>>
  /\ (stage # "Start" \/ calls["get_company_insights"] > 0) => Truthy(use_case)
  /\ GatewayReturned
       => /\ calls["get_company_insights"] = 1
          /\ calls["business_overview"] = 1
          /\ calls["technical_context"] = 1

C29_Witness ==
  /\ GatewayReturned
  /\ entry = "research"
  /\ use_case = DefaultUseCase
  /\ calls["technical_context"] = 1

\* the research structure with no field but the two the prompt quotes
QuotedFields(research) ==
  [k \in DOMAIN research \cap {"business_overview", "technical_context"} |-> research[k]]

\* C30: the generation prompt is a function of the transcript, the company
\* name, the additional context and the research fields business_overview
\* and technical_context: it is the prompt built from these alone, and other
\* search results or another transcript analysis give the same prompt.
C30_PromptIgnoresSearchAndAnalysis ==
  (collab = "real" /\ outcome["build_prompt"] = "returned")
    => /\ prompt = build_solution_guide_prompt(transcript, company_name,
                                               QuotedFields(insights), additional_context)
       /\ \A results \in {[results |-> hits, query |-> company_name,
                             total_results |-> Len(hits)] : hits \in {<<>>, <<Hit(1)>>}},
             analysis \in {OverviewText, ChatFailedText} :
            prompt = build_solution_guide_prompt(
                       transcript, company_name,
                       Put(Put(insights, "search_results", results),
                           "transcript_analysis", analysis),
                       additional_context)

C30_Witness ==
  /\ collab = "real"
  /\ outcome["build_prompt"] = "returned"
  /\ AnalysisAttached
  /\ "search_results" \in DOMAIN insights
  /\ insights.search_results.results # <<>>

(***************************************************************************)
(* Properties of POST /research-company (Spec).                            *)
(***************************************************************************)
ResearchAnswered == entry = "research" /\ pc = "responded"

OwnOutcome(f) ==
  /\ \A k \in CallKinds : f.calls[k] <= 1
  /\ \A k \in CallKinds : f.calls[k] = 0 <=> f.outcome[k] = "none"
  /\ f.use_case # NoneVal
       => f.use_case = _extract_use_case(f.transcript, f.additional_context)
  /\ f.transcript_excerpt # NoneVal => f.transcript_excerpt = excerpt(f.transcript)
  /\ (f.collab = "real" /\ f.calls["get_company_insights"] = 1)
       => /\ "company_name" \in DOMAIN f.insights
          /\ f.insights.company_name = f.company_name
          /\ \A k \in {"search", "business_overview", "technical_context",
                       "transcript_analysis"} :
               f.calls[k] = 0 =>
                 (IF k = "search" THEN "search_results" ELSE k) \notin DOMAIN f.insights
  /\ (f.collab = "double" /\ f.calls["get_company_insights"] = 1)
       => IF "company_name" \in DOMAIN f.insights
          THEN f.insights.company_name = f.company_name
          ELSE /\ {"business_overview", "technical_context"} \subseteq DOMAIN f.insights
               /\ f.insights.business_overview = BusinessInfo
               /\ f.insights.technical_context = TechInfo
               /\ f.calls["transcript_analysis"] = 0
                    => "transcript_analysis" \notin DOMAIN f.insights
  /\ f.outcome["build_prompt"] = "returned"
       => f.prompt = IF f.collab = "double" THEN TestPrompt
                     ELSE build_solution_guide_prompt(f.transcript, f.company_name,
                                                      f.insights, f.additional_context)
  /\ f.calls["generation"] = 0 => f.solution_guide = NoneVal
  /\ f.result.state = "returned"
       => f.result.value = _post_process_guide(f.solution_guide, f.company_name)
  /\ f.result.state = "raised"
       => /\ f.fault.msg = f.result.value \/ f.result.value = GenerateFailedPrefix \o f.fault.msg
          /\ f.stage = "Failed"
  /\ f.response.status = 200 => f.response.body = f.result.value
  /\ f.response.status = 500 => f.result.state = "raised"
  /\ f.response.status \in {400, 422}
       => /\ Blank(f.transcript) \/ Blank(f.company_name)
          /\ f.calls = [k \in CallKinds |-> 0]

\* C22: under every interleaving of two requests to /generate-guide, what
\* each request holds and answers is made of its own input and of the
\* provider's answers to its own calls, for the request that runs and for
\* the one that waits.
C22_RequestsShareNothing ==
  /\ OwnOutcome(Frame)
  /\ suspended # NoFrame => OwnOutcome(suspended)
  /\ suspended # NoFrame => {company_name, suspended.company_name} = {Acme, Zeta}

C22_Witness ==
  /\ suspended # NoFrame
  /\ pc = "responded" /\ response.status = 200
  /\ suspended.pc = "responded" /\ suspended.response.status = 200
  /\ response.body # suspended.response.body
  /\ \E i \in 1..Len(trace) : trace[i] = "Done"

====
